---- MODULE Spec2Model ----
(***************************************************************************)
(* A model of kisom/netallow: host and network access control lists        *)
(* (Basic, BasicNet, HostStub, NetStub), the address lookups and the HTTP   *)
(* handler that gates requests on an ACL.                                   *)
(*                                                                          *)
(* Callers are processes.  An ACL call is split at the points where other   *)
(* goroutines can interleave: the call (with its validIP early return),     *)
(* the acquisition of the lock, the access to the map or slice, and the     *)
(* release of the lock together with the return.                            *)
(***************************************************************************)
EXTENDS Integers, Sequences, FiniteSets, TLC

VARIABLES
    lockKind,    \* "Mutex" (netallow.Basic) or "RWMutex" (whitelist.Basic)
    writer,      \* the process holding the lock exclusively, or NoProc
    readers,     \* the processes holding the lock in shared mode
    allowed,     \* Basic.allowed: the keys of the map[string]bool
    pc,          \* per process: position in the current call
    op,          \* per process: the operation being executed
    arg,         \* per process: the net.IP argument of the call
    res,         \* per process: the boolean the call returns
    hist,        \* per process: the completed calls, when recording
    recording,   \* whether completed calls are recorded in hist
    tracking,    \* whether last, lastK, sure and sureK are kept
    last,        \* per address: the last settled Add/Remove of that address
    lastK,       \* per key: the last settled Add/Remove of that key
    sure,        \* per process in Permitted: last[arg] as of the call
    sureK,       \* per process in Permitted: lastK[key] as of the call
    aclKind,     \* the ACL in use: "Basic", "BasicNet", "HostStub", "NetStub"
    netAllowed,  \* BasicNet.allowed: the slice of networks
    handler,     \* the Handler NewHandler returned, or NoHandler
    req,         \* per process: RemoteAddr of the request being served
    out,         \* per process: what ServeHTTP has done for the request
    allowedNil,  \* Basic.allowed is the nil map (after a failed decode)
    ret          \* per process: what a codec call, or a panic, produced

aclVars == <<lockKind, writer, readers, allowed, aclKind, netAllowed>>
callVars == <<pc, op, arg, res>>
ghostVars == <<hist, recording, tracking, last, lastK, sure, sureK>>
httpVars == <<handler, req, out>>
codecVars == <<allowedNil, ret>>

vars == <<aclVars, callVars, ghostVars, httpVars, codecVars>>

----------------------------------------------------------------------------
(* Bounds *)

\* Calls per process recorded when the history is recorded.
MaxOps == 2

\* Networks a BasicNet holds at most.
MaxNets == 2

\* The goroutines calling into the package, and the holder of a free lock.
Procs == {"g1", "g2"}
NoProc == "nobody"

----------------------------------------------------------------------------
(* net.IP values: byte slices *)

NilIP == <<>>
ShortIP == <<10, 0, 1>>
V4Lo == <<127, 0, 0, 1>>
V4InV6Prefix == <<0, 0, 0, 0, 0, 0, 0, 0, 0, 0, 255, 255>>
MappedLo == V4InV6Prefix \o V4Lo
V6Lo == <<0, 0, 0, 0, 0, 0, 0, 0, 0, 0, 0, 0, 0, 0, 0, 1>>
V4Ten == <<10, 0, 1, 15>>
MappedTen == V4InV6Prefix \o V4Ten

\* The addresses callers pass to the host ACL.
IPs == {NilIP, ShortIP, V4Lo, MappedLo, V6Lo}

\* The addresses used while the history is recorded.
LinIPs == {V4Lo, V6Lo}

\* The addresses added to and removed from an ACL that is encoded and decoded.
CodecIPs == {V4Lo, V6Lo, V4Ten}

\* Every address of the model, the results of net.ParseIP included.
AllIPs == IPs \cup CodecIPs \cup {MappedTen}

\* net.IP.To4: the 4-byte form of an IPv4 or IPv4-mapped address, else nil.
To4(ip) ==
    IF Len(ip) = 4 THEN ip
    ELSE IF Len(ip) = 16 /\ SubSeq(ip, 1, 12) = V4InV6Prefix
         THEN SubSeq(ip, 13, 16)
         ELSE NilIP

HexDigits == <<"0", "1", "2", "3", "4", "5", "6", "7",
               "8", "9", "a", "b", "c", "d", "e", "f">>

RECURSIVE Hex(_)
Hex(n) ==
    IF n < 16 THEN HexDigits[n + 1]
    ELSE Hex(n \div 16) \o HexDigits[(n % 16) + 1]

RECURSIVE HexBytes(_)
HexBytes(b) ==
    IF b = <<>> THEN ""
    ELSE HexDigits[(Head(b) \div 16) + 1] \o HexDigits[(Head(b) % 16) + 1]
         \o HexBytes(Tail(b))

Dotted(b) ==
    ToString(b[1]) \o "." \o ToString(b[2]) \o "." \o
    ToString(b[3]) \o "." \o ToString(b[4])

Groups(ip) == [i \in 1..8 |-> ip[2 * i - 1] * 256 + ip[2 * i]]

\* Length of the run of zero groups of g that starts at group i.
RECURSIVE ZeroRun(_, _)
ZeroRun(g, i) ==
    IF i > 8 \/ g[i] # 0 THEN 0 ELSE 1 + ZeroRun(g, i + 1)

\* First group of the longest run of two or more zero groups, 0 if none.
BestRun(g) ==
    LET longest(i) == \A j \in 1..8 :
            /\ ZeroRun(g, j) <= ZeroRun(g, i)
            /\ (ZeroRun(g, j) = ZeroRun(g, i) => i <= j)
    IN  IF \E i \in 1..8 : ZeroRun(g, i) >= 2
        THEN CHOOSE i \in 1..8 : longest(i)
        ELSE 0

RECURSIVE V6Join(_, _, _)
V6Join(g, i, e0) ==
    IF i > 8 THEN ""
    ELSE IF i = e0
         THEN LET e1 == e0 + ZeroRun(g, e0)
              IN  "::" \o (IF e1 > 8 THEN ""
                           ELSE Hex(g[e1]) \o V6Join(g, e1 + 1, e0))
         ELSE (IF i > 1 THEN ":" ELSE "") \o Hex(g[i]) \o V6Join(g, i + 1, e0)

\* net.IP.String: the textual form Basic uses as the map key.
String(ip) ==
    IF Len(ip) = 0 THEN "<nil>"
    ELSE IF Len(ip) # 4 /\ Len(ip) # 16 THEN "?" \o HexBytes(ip)
    ELSE IF Len(To4(ip)) = 4 THEN Dotted(To4(ip))
    ELSE V6Join(Groups(ip), 1, BestRun(Groups(ip)))

\* ip.String() for the addresses of the model, computed once.
StringOf == [ip \in AllIPs |-> String(ip)]

\* A key that tells the byte lengths of one IPv4 address apart.
KeyByBytes(ip) == IF Len(ip) = 16 THEN "[16]" \o StringOf[ip] ELSE StringOf[ip]

Key(ip) == StringOf[ip]

Keys == {Key(ip) : ip \in AllIPs}

ValidIPs == {ip \in IPs : Len(ip) = 4 \/ Len(ip) = 16}

ValidKeys == {Key(ip) : ip \in ValidIPs}

----------------------------------------------------------------------------
(* Host ACL: Basic *)

validIPAny(ip) == TRUE

validIP(ip) == Len(ip) = 4 \/ Len(ip) = 16

AddNothing(m, ip) == m

\* acl.allowed[ip.String()] = true
BasicAdd(m, ip) == m \cup {Key(ip)}

RemoveNothing(m, ip) == m

RemoveOrClear(m, ip) == IF Key(ip) \in m THEN m \ {Key(ip)} ELSE {}

\* delete(acl.allowed, ip.String())
BasicRemove(m, ip) == m \ {Key(ip)}

BasicLookupAny(m, ip) == m # {}

\* acl.allowed[ip.String()]
BasicLookup(m, ip) == Key(ip) \in m

\* What the section between Lock and Unlock of operation o does to the map.
BasicEffect(o, m, ip) ==
    IF o = "Add" THEN BasicAdd(m, ip)
    ELSE IF o = "Remove" THEN BasicRemove(m, ip)
    ELSE m

Writes(o) == o \in {"Add", "Remove"}

\* The operations that change the member collection.
Mutates(o) == Writes(o) \/ o = "UnmarshalJSON"

\* The mode in which an operation takes the lock: Permitted takes RLock
\* when the lock is a sync.RWMutex, everything else takes Lock.
LockMode(kind, o) ==
    IF kind = "RWMutex" /\ ~Mutates(o) THEN "shared" ELSE "exclusive"

CanLockAlways(mode, w, r) == TRUE

\* sync.Mutex.Lock, sync.RWMutex.Lock and sync.RWMutex.RLock can proceed.
CanLock(mode, w, r) ==
    IF mode = "shared" THEN w = NoProc ELSE w = NoProc /\ r = {}

UnlockForgotten(w, p) == w

\* acl.lock.Unlock(), deferred or not: the writer p gives the lock up.
Unlock(w, p) == IF w = p THEN NoProc ELSE w

\* p is at its Lock or RLock and the lock can be taken.
CanEnter(p) ==
    pc[p] = "lock" /\ CanLock(LockMode(lockKind, op[p]), writer, readers)

\* p is between Lock and Unlock.
InCS(p) == pc[p] = "unlock"

\* Another goroutine is inside the section with an unsynchronised
\* conflicting access to the map: a data race.
Race(p) ==
    \E q \in Procs \ {p} : InCS(q) /\ (Mutates(op[p]) \/ Mutates(op[q]))

InFlight(q) == pc[q] \in {"lock", "unlock"}

----------------------------------------------------------------------------
(* Network ACL: BasicNet *)

NilNet == [IP |-> NilIP, Mask |-> NilIP]
Lo32 == [IP |-> V4Lo, Mask |-> <<255, 255, 255, 255>>]
Lo8 == [IP |-> <<127, 0, 0, 0>>, Mask |-> <<255, 0, 0, 0>>]

\* The networks callers pass to the network ACL; NilNet is the nil pointer.
Nets == {NilNet, Lo32, Lo8}

RECURSIVE BitAnd(_, _)
BitAnd(a, b) ==
    IF a = 0 \/ b = 0 THEN 0
    ELSE (a % 2) * (b % 2) + 2 * BitAnd(a \div 2, b \div 2)

\* net.networkNumberAndMask
NetNumber(n) == IF Len(To4(n.IP)) = 4 THEN To4(n.IP) ELSE n.IP

NetMask(n) ==
    IF Len(n.Mask) = 16 /\ Len(NetNumber(n)) = 4
    THEN SubSeq(n.Mask, 13, 16)
    ELSE n.Mask

\* net.IPNet.Contains
Contains(n, ip) ==
    LET x == IF Len(To4(ip)) = 4 THEN To4(ip) ELSE ip
        nn == NetNumber(n)
        m == NetMask(n)
    IN  /\ Len(nn) \in {4, 16}
        /\ Len(m) = Len(nn)
        /\ Len(x) = Len(nn)
        /\ \A i \in 1..Len(x) : BitAnd(nn[i], m[i]) = BitAnd(x[i], m[i])

\* Leading one bits of a mask byte, -1 when the ones are not leading.
ByteOnes(b) ==
    CASE b = 255 -> 8 [] b = 254 -> 7 [] b = 252 -> 6 [] b = 248 -> 5
      [] b = 240 -> 4 [] b = 224 -> 3 [] b = 192 -> 2 [] b = 128 -> 1
      [] b = 0 -> 0 [] OTHER -> -1

\* net.simpleMaskLength
RECURSIVE MaskLength(_)
MaskLength(m) ==
    IF m = <<>> THEN 0
    ELSE IF Head(m) = 255
         THEN (IF MaskLength(Tail(m)) < 0 THEN -1 ELSE 8 + MaskLength(Tail(m)))
         ELSE IF ByteOnes(Head(m)) < 0 \/ \E i \in 1..Len(Tail(m)) : Tail(m)[i] # 0
              THEN -1
              ELSE ByteOnes(Head(m))

\* net.IPNet.String
NetString(n) ==
    IF Len(NetNumber(n)) \notin {4, 16} \/ Len(NetMask(n)) # Len(NetNumber(n))
    THEN "<nil>"
    ELSE IF MaskLength(NetMask(n)) < 0
         THEN String(NetNumber(n)) \o "/" \o HexBytes(NetMask(n))
         ELSE String(NetNumber(n)) \o "/" \o ToString(MaskLength(NetMask(n)))

\* for i := range acl.allowed { if acl.allowed[i].Contains(ip) { return true } }
NetLookup(l, ip) == \E i \in 1..Len(l) : Contains(l[i], ip)

\* acl.allowed = append(acl.allowed, n)
NetAdd(l, n) == Append(l, n)

NetIndexFirst(l, n) == IF l # <<>> THEN 1 ELSE 0

\* The index of the first entry whose String equals n's, 0 if there is none.
NetIndex(l, n) ==
    IF \E i \in 1..Len(l) : NetString(l[i]) = NetString(n)
    THEN CHOOSE i \in 1..Len(l) :
            /\ NetString(l[i]) = NetString(n)
            /\ \A j \in 1..(i - 1) : NetString(l[j]) # NetString(n)
    ELSE 0

RECURSIVE NetRemoveEvery(_, _)
NetRemoveEvery(l, n) ==
    IF l = <<>> THEN l
    ELSE IF NetString(Head(l)) = NetString(n) THEN NetRemoveEvery(Tail(l), n)
    ELSE <<Head(l)>> \o NetRemoveEvery(Tail(l), n)

\* acl.allowed = append(acl.allowed[:index], acl.allowed[index+1:]...)
NetRemove(l, n) ==
    IF NetIndex(l, n) = 0 THEN l
    ELSE SubSeq(l, 1, NetIndex(l, n) - 1) \o SubSeq(l, NetIndex(l, n) + 1, Len(l))

NetEffectConsuming(o, l, x) ==
    IF o = "Add" THEN NetAdd(l, x)
    ELSE IF o = "Remove" THEN NetRemove(l, x)
    ELSE SelectSeq(l, LAMBDA n : n = NilNet \/ ~Contains(n, x))

\* What the section between Lock and Unlock of operation o does to the
\* slice.
NetEffect(o, l, x) ==
    IF o = "Add" THEN NetAdd(l, x)
    ELSE IF o = "Remove" THEN NetRemove(l, x)
    ELSE l

----------------------------------------------------------------------------
(* Address lookup *)

\* A RemoteAddr is a string, held as its pieces: the characters ":", "["
\* and "]" each on their own, and the text between them.
AddrEmpty == <<>>
AddrV4 == <<"127.0.0.1", ":", "80">>
AddrV6 == <<"[", ":", ":", "1", "]", ":", "80">>
AddrName == <<"localhost", ":", "80">>
AddrNoPort == <<"127.0.0.1">>

RemoteAddrs == {AddrEmpty, AddrV4, AddrV6, AddrName, AddrNoPort}

NoReq == <<"-">>

\* Positions of character c in s.
Positions(s, c) == {i \in 1..Len(s) : s[i] = c}

Max(S) == CHOOSE x \in S : \A y \in S : y <= x
Min(S) == CHOOSE x \in S : \A y \in S : x <= y

RECURSIVE Concat(_)
Concat(s) == IF s = <<>> THEN "" ELSE Head(s) \o Concat(Tail(s))

\* net.SplitHostPort: the host, or the error.
SplitHostPort(s) ==
    LET colons == Positions(s, ":")
        i == Max(colons)
        closes == Positions(s, "]")
        end == Min(closes)
        fail(m) == [host |-> "", err |-> m]
    IN  IF colons = {} THEN fail("missing port in address")
        ELSE IF s[1] = "["
        THEN IF closes = {} THEN fail("missing ']' in address")
             ELSE IF end = Len(s) THEN fail("missing port in address")
             ELSE IF end + 1 # i
                  THEN (IF s[end + 1] = ":"
                        THEN fail("too many colons in address")
                        ELSE fail("missing port in address"))
             ELSE IF Positions(SubSeq(s, 2, Len(s)), "[") # {}
                  THEN fail("unexpected '[' in address")
             ELSE IF Positions(SubSeq(s, end + 1, Len(s)), "]") # {}
                  THEN fail("unexpected ']' in address")
             ELSE [host |-> Concat(SubSeq(s, 2, end - 1)), err |-> ""]
        ELSE IF Positions(SubSeq(s, 1, i - 1), ":") # {}
                 THEN fail("too many colons in address")
             ELSE IF Positions(s, "[") # {}
                  THEN fail("unexpected '[' in address")
             ELSE IF closes # {} THEN fail("unexpected ']' in address")
             ELSE [host |-> Concat(SubSeq(s, 1, i - 1)), err |-> ""]

\* net.ParseIP on the literals of the model: the 16-byte form of an
\* address literal, nil for anything else.
ParseIP(t) ==
    CASE t = "127.0.0.1" -> MappedLo
      [] t = "10.0.1.15" -> MappedTen
      [] t = "::ffff:127.0.0.1" -> MappedLo
      [] t = "::1" -> V6Lo
      [] t = "0:0:0:0:0:0:0:1" -> V6Lo
      [] OTHER -> NilIP

\* HTTPRequestLookup.Address(req) for a request with RemoteAddr r: the
\* address and the error.  A host that is no address literal gives a nil
\* address and no error.
Address(r) ==
    IF SplitHostPort(r).err # ""
    THEN [ip |-> NilIP, err |-> SplitHostPort(r).err]
    ELSE [ip |-> ParseIP(SplitHostPort(r).host), err |-> ""]

\* The values a caller can hand to Address(args ...interface{}): the nil
\* interface, a value of another type, a net.Conn whose RemoteAddr() is nil
\* or prints as r, a *http.Request with RemoteAddr r, a nil *http.Request.
NilArg == [kind |-> "nil", ptr |-> FALSE, addr |-> FALSE, remote |-> <<>>]
OtherArg == [kind |-> "string", ptr |-> TRUE, addr |-> FALSE, remote |-> <<>>]
ConnNoAddr == [kind |-> "net.Conn", ptr |-> TRUE, addr |-> FALSE, remote |-> <<>>]
Conn(r) == [kind |-> "net.Conn", ptr |-> TRUE, addr |-> TRUE, remote |-> r]
Request(r) == [kind |-> "*http.Request", ptr |-> TRUE, addr |-> TRUE, remote |-> r]
NilRequest == [kind |-> "*http.Request", ptr |-> FALSE, addr |-> FALSE, remote |-> <<>>]

\* What Address returns: the address and the error, or a panic.
Found(ip) == [ip |-> ip, err |-> "", panic |-> FALSE]
Failed(m) == [ip |-> NilIP, err |-> m, panic |-> FALSE]
Crashed == [ip |-> NilIP, err |-> "", panic |-> TRUE]

\* The end of both extractors: split "host:port", parse the host.
HostOf(r) ==
    IF Address(r).err # "" THEN Failed(Address(r).err) ELSE Found(Address(r).ip)

ConnAddressUnchecked(args) ==
    IF Len(args) # 1 THEN Failed("whitelist: lookup requires a net.Conn")
    ELSE IF args[1].kind # "net.Conn"
    THEN Failed("whitelist: lookup requires a net.Conn")
    ELSE IF ~args[1].addr THEN Crashed
    ELSE HostOf(args[1].remote)

\* NetConnLookup.Address(args...)
ConnAddress(args) ==
    IF Len(args) # 1 THEN Failed("whitelist: lookup requires a net.Conn")
    ELSE IF args[1].kind # "net.Conn"
    THEN Failed("whitelist: lookup requires a net.Conn")
    ELSE IF ~args[1].addr THEN Failed("whitelist: no address returned")
    ELSE HostOf(args[1].remote)

RequestAddressAnyCount(args) ==
    IF args = <<>> THEN Crashed
    ELSE IF args[1].kind # "*http.Request"
    THEN Failed("whitelist: lookup requires a *http.Request")
    ELSE IF ~args[1].ptr THEN Crashed
    ELSE HostOf(args[1].remote)

\* HTTPRequestLookup.Address(args...); reading RemoteAddr of a nil
\* *http.Request panics.
RequestAddress(args) ==
    IF Len(args) # 1 THEN Failed("whitelist: lookup requires a *http.Request")
    ELSE IF args[1].kind # "*http.Request"
    THEN Failed("whitelist: lookup requires a *http.Request")
    ELSE IF ~args[1].ptr THEN Crashed
    ELSE HostOf(args[1].remote)

Lookups == {"NetConnLookup", "HTTPRequestLookup"}

LookupAddress(lu, args) ==
    IF lu = "NetConnLookup" THEN ConnAddress(args) ELSE RequestAddress(args)

\* The argument lists the callers try.
LookupArgs ==
    {<<>>, <<NilArg>>, <<NilArg, NilArg>>, <<OtherArg>>, <<ConnNoAddr>>,
     <<NilRequest>>, <<Conn(AddrV4), Conn(AddrV4)>>,
     <<Request(AddrV4), Request(AddrV4)>>}
    \cup {<<Conn(r)>> : r \in RemoteAddrs}
    \cup {<<Request(r)>> : r \in RemoteAddrs}

----------------------------------------------------------------------------
(* Byte strings and the codecs *)

\* A byte string is held as its pieces, like a RemoteAddr: the characters
\* newline, comma, double quote and space each on their own, and the text
\* between them.
NL == "\n"
Comma == ","
Quote == "\""
Space == " "

\* The piece of a string: nothing for the empty string.
Piece(t) == IF t = "" THEN <<>> ELSE <<t>>

\* strings.Join(ss, sep)
RECURSIVE Join(_, _)
Join(ss, sep) ==
    IF ss = <<>> THEN <<>>
    ELSE IF Len(ss) = 1 THEN Piece(ss[1])
    ELSE Piece(Head(ss)) \o <<sep>> \o Join(Tail(ss), sep)

\* strings.Split(s, sep): the byte strings between the separators; one
\* empty string when s is empty.
RECURSIVE Split(_, _)
Split(s, sep) ==
    IF Positions(s, sep) = {} THEN <<s>>
    ELSE <<SubSeq(s, 1, Min(Positions(s, sep)) - 1)>>
         \o Split(SubSeq(s, Min(Positions(s, sep)) + 1, Len(s)), sep)

IsSpace(c) == c \in {Space, NL}

\* strings.TrimSpace(s)
RECURSIVE TrimSpace(_)
TrimSpace(s) ==
    IF s = <<>> THEN s
    ELSE IF IsSpace(s[1]) THEN TrimSpace(Tail(s))
    ELSE IF IsSpace(s[Len(s)]) THEN TrimSpace(SubSeq(s, 1, Len(s) - 1))
    ELSE s

\* The characters of the textual forms of the model, for comparing them.
Spellings ==
    { <<"1", "0", ".", "0", ".", "1", ".", "1", "5">>,
      <<"1", "2", "7", ".", "0", ".", "0", ".", "1">>,
      <<":", ":", "1">>,
      <<":", ":", "f", "f", "f", "f", ":",
        "1", "2", "7", ".", "0", ".", "0", ".", "1">> }

Letters(t) == CHOOSE s \in Spellings : Concat(s) = t

\* The byte value of a character: '.' to ':' are 46..58, 'a' to 'f' 97..102.
Ord(c) ==
    LET low == <<".", "/", "0", "1", "2", "3", "4", "5", "6", "7", "8", "9", ":">>
        hex == <<"a", "b", "c", "d", "e", "f">>
    IN  IF Positions(low, c) # {} THEN 45 + Min(Positions(low, c))
        ELSE 96 + Min(Positions(hex, c))

\* a < b for Go strings: byte-wise lexicographic order.
RECURSIVE StrLess(_, _)
StrLess(a, b) ==
    IF b = <<>> THEN FALSE
    ELSE IF a = <<>> THEN TRUE
    ELSE IF Head(a) # Head(b) THEN Ord(Head(a)) < Ord(Head(b))
    ELSE StrLess(Tail(a), Tail(b))

RECURSIVE SortDescending(_)
SortDescending(S) ==
    IF S = {} THEN <<>>
    ELSE LET m == CHOOSE x \in S :
                    \A y \in S \ {x} : StrLess(Letters(y), Letters(x))
         IN  <<m>> \o SortDescending(S \ {m})

\* sort.Strings over the keys of the map.
RECURSIVE SortStrings(_)
SortStrings(S) ==
    IF S = {} THEN <<>>
    ELSE LET m == CHOOSE x \in S :
                    \A y \in S \ {x} : StrLess(Letters(x), Letters(y))
         IN  <<m>> \o SortStrings(S \ {m})

\* DumpBasic(acl) for an ACL whose map has the keys m.
DumpBasic(m) == Join(SortStrings(m), NL)

\* acl.Add(ip) for each parsed line, on the ACL NewBasic made.
RECURSIVE AddEach(_, _)
AddEach(m, ips) ==
    IF ips = <<>> THEN m
    ELSE AddEach(IF validIP(Head(ips)) THEN BasicAdd(m, Head(ips)) ELSE m,
                 Tail(ips))

LoadBasicSkipping(in) ==
    LET addrs == Split(in, NL)
        ips == [i \in 1..Len(addrs) |-> ParseIP(Concat(addrs[i]))]
    IN  [nilacl |-> FALSE, acl |-> AddEach({}, ips), err |-> ""]

\* LoadBasic(in): the ACL, or nil and the error of the first bad line.
LoadBasic(in) ==
    LET addrs == Split(in, NL)
        ips == [i \in 1..Len(addrs) |-> ParseIP(Concat(addrs[i]))]
    IN  IF \E i \in 1..Len(ips) : ips[i] = NilIP
        THEN [nilacl |-> TRUE, acl |-> {}, err |-> "netallow: invalid address"]
        ELSE [nilacl |-> FALSE, acl |-> AddEach({}, ips), err |-> ""]

\* The orders in which a range over the map can yield the keys m.
Orders(m) ==
    {ss \in [1..Cardinality(m) -> m] : \A k \in m : \E i \in DOMAIN ss : ss[i] = k}

\* []byte(`"` + strings.Join(ss, ",") + `"`)
MarshalBytes(ss) == <<Quote>> \o Join(ss, Comma) \o <<Quote>>

\* The strings BasicNet.MarshalJSON joins.
NetStrings(l) == [i \in 1..Len(l) |-> NetString(l[i])]

\* in[0] != '"' || in[len(in)-1] != '"'
Unquoted(in) == in[1] # Quote \/ in[Len(in)] # Quote

\* Indexing in[0] of an empty input is out of range: the call panics at
\* the quote check.
OutOfRange(in) == in = <<>>

\* A lone quote passes the quote check, being the first and the last byte;
\* slicing in[1 : len(in)-1] of it, under the lock, is out of range.
BadSlice(in) == in = <<Quote>>

\* The trimmed tokens between the quotes.
Tokens(in) ==
    LET nets == Split(TrimSpace(SubSeq(in, 2, Len(in) - 1)), Comma)
    IN  [i \in 1..Len(nets) |-> Concat(TrimSpace(nets[i]))]

\* net.ParseCIDR on the literals of the model: the network, or the error.
ParseCIDR(t) ==
    CASE t = "127.0.0.1/32" -> [net |-> Lo32, err |-> ""]
      [] t = "127.0.0.0/8" -> [net |-> Lo8, err |-> ""]
      [] t = "127.0.0.1/8" -> [net |-> Lo8, err |-> ""]
      [] OTHER -> [net |-> NilNet, err |-> "invalid CIDR address: " \o t]

UnmarshalHostPartial(in) ==
    LET toks == Tokens(in)
        good == {i \in 1..Len(toks) : toks[i] # "" /\ ParseIP(toks[i]) # NilIP}
    IN  IF \E i \in 1..Len(toks) : toks[i] # "" /\ ParseIP(toks[i]) = NilIP
        THEN [allowed |-> {toks[i] : i \in good}, nilmap |-> FALSE,
              err |-> "netallow: invalid IP address"]
        ELSE [allowed |-> {toks[i] : i \in good}, nilmap |-> FALSE, err |-> ""]

\* Basic.UnmarshalJSON past the quote check: the new map, keyed by the
\* tokens as written, or the nil map and the error of the first bad token.
UnmarshalHost(in) ==
    LET toks == Tokens(in)
        good == {i \in 1..Len(toks) : toks[i] # ""}
    IN  IF \E i \in good : ParseIP(toks[i]) = NilIP
        THEN [allowed |-> {}, nilmap |-> TRUE,
              err |-> "netallow: invalid IP address"]
        ELSE [allowed |-> {toks[i] : i \in good}, nilmap |-> FALSE, err |-> ""]

\* BasicNet.UnmarshalJSON past the quote check: a slice with one slot per
\* token, left nil for a blank token, or the nil slice and the error of the
\* first bad token.
UnmarshalNet(in) ==
    LET toks == Tokens(in)
        good == {i \in 1..Len(toks) : toks[i] # ""}
    IN  IF \E i \in good : ParseCIDR(toks[i]).err # ""
        THEN [allowed |-> <<>>,
              err |-> ParseCIDR(toks[Min({i \in good :
                                            ParseCIDR(toks[i]).err # ""})]).err]
        ELSE [allowed |-> [i \in 1..Len(toks) |->
                             IF i \in good THEN ParseCIDR(toks[i]).net
                             ELSE NilNet],
              err |-> ""]

\* Permitted reaches a nil slot of the slice before a network that contains
\* ip: the call of Contains on the nil *net.IPNet panics.
NetPanics(l, ip) ==
    \E i \in 1..Len(l) :
        /\ l[i] = NilNet
        /\ \A j \in 1..(i - 1) : ~Contains(l[j], ip)

----------------------------------------------------------------------------
(* History variables *)

Settle(cur, o) ==
    IF o = "Add" THEN (IF cur = "rem" THEN "none" ELSE cur)
    ELSE IF o = "Remove" THEN (IF cur = "add" THEN "none" ELSE cur)
    ELSE cur

Mark(o) == IF o = "Add" THEN "add" ELSE "rem"

Opposite(o) == IF o = "Add" THEN "Remove" ELSE "Add"

\* A call of o on a is made: it unsettles the opposite operation on a.
GhostCall(p, o, a) ==
    /\ last' = [last EXCEPT ![a] = Settle(@, o)]
    /\ lastK' = [lastK EXCEPT ![Key(a)] = Settle(@, o)]
    /\ sure' = [q \in Procs |->
                  IF q = p
                  THEN (IF o = "Permitted" THEN last[a] ELSE "none")
                  ELSE IF pc[q] # "idle" /\ op[q] \in {"Permitted", "Serve"} /\ arg[q] = a
                       THEN Settle(sure[q], o)
                       ELSE sure[q]]
    /\ sureK' = [q \in Procs |->
                  IF q = p
                  THEN (IF o = "Permitted" THEN lastK[Key(a)] ELSE "none")
                  ELSE IF pc[q] # "idle" /\ op[q] \in {"Permitted", "Serve"}
                          /\ Key(arg[q]) = Key(a)
                       THEN Settle(sureK[q], o)
                       ELSE sureK[q]]

\* A call of o on a returns: it is settled unless an opposite call is under way.
GhostReturn(p, o, a) ==
    /\ last' = IF Writes(o) /\ ~\E q \in Procs \ {p} :
                    InFlight(q) /\ op[q] = Opposite(o) /\ arg[q] = a
               THEN [last EXCEPT ![a] = Mark(o)]
               ELSE last
    /\ lastK' = IF Writes(o) /\ ~\E q \in Procs \ {p} :
                    InFlight(q) /\ op[q] = Opposite(o)
                    /\ Key(arg[q]) = Key(a)
                THEN [lastK EXCEPT ![Key(a)] = Mark(o)]
                ELSE lastK
    /\ UNCHANGED <<sure, sureK>>

Record(p, o, a, r) ==
    hist' = IF recording
            THEN [hist EXCEPT ![p] = Append(@, <<o, a, r>>)]
            ELSE hist

----------------------------------------------------------------------------
(* The HTTP handler *)

NoHandler == [live |-> FALSE, allow |-> FALSE, deny |-> FALSE, acl |-> FALSE]

\* NewHandler(allow, deny, wl): the fields record whether each argument was
\* non-nil.  Nothing is checked.
NewHandlerResult(a, d, w) == [live |-> TRUE, allow |-> a, deny |-> d, acl |-> w]

NoOut == [state |-> "Received", status |-> 0, ran |-> {}, asked |-> FALSE]

LookupNeverFailed(lk) == FALSE

\* if err != nil
LookupFailed(lk) == lk.err # ""

RouteDenyAsAllow(permitted, h) ==
    IF permitted \/ ~h.deny THEN "allow" ELSE "deny"

\* The branch ServeHTTP takes on the answer of Permitted.
Route(permitted, h) ==
    IF permitted THEN "allow"
    ELSE IF h.deny THEN "deny" ELSE "unauthorized"

\* What the branch does: a nil handler cannot be called.
Outcome(route, h, o) ==
    CASE route = "allow" /\ h.allow ->
            [o EXCEPT !.state = "AllowDispatched", !.ran = @ \cup {"allow"}]
      [] route = "allow" /\ ~h.allow -> [o EXCEPT !.state = "Panic"]
      [] route = "deny" ->
            [o EXCEPT !.state = "DenyDispatched", !.ran = @ \cup {"deny"}]
      [] OTHER -> [o EXCEPT !.state = "Unauthorized", !.status = 401]

----------------------------------------------------------------------------
(* Actions *)

Stubs == {"HostStub", "NetStub"}

NetLists == UNION {[1..n -> Nets \ {NilNet}] : n \in 0..MaxNets}

\* The slices a decode can leave: a slot is nil where the token was blank.
NetSlots == UNION {[1..n -> Nets] : n \in 0..MaxNets}

CodecOps == {"MarshalJSON", "UnmarshalJSON", "DumpBasic", "LoadBasic"}

\* What a caller holds of a codec call: the bytes an encode returned, the
\* error and the ACL a decode returned, whether the call panicked; and, for
\* the record, the member collection the call found, whether it touched the
\* collection and held the lock then, and the encode a decode's input
\* came from.
NoRet == [bytes |-> <<>>, err |-> "", acl |-> {}, nilacl |-> FALSE,
          redump |-> <<>>, snap |-> {}, snapNet |-> <<>>, src |-> "",
          touched |-> FALSE, held |-> FALSE, fault |-> FALSE, ip |-> NilIP]

\* The call returns before taking the lock.
EarlyReturn(kind, o, a) ==
    CASE kind \in Stubs -> TRUE
      [] kind = "Basic" -> ~validIP(a)
      [] kind = "BasicNet" -> IF Writes(o) THEN a = NilNet ELSE ~validIP(a)

\* What Permitted returns then: a stub permits, a live ACL does not.
EarlyResult(kind, o) == kind \in Stubs /\ ~Writes(o)

TypeOK ==
    /\ lockKind \in {"Mutex", "RWMutex"}
    /\ writer \in Procs \cup {NoProc}
    /\ readers \subseteq Procs
    /\ allowed \subseteq Keys \cup {Concat(s) : s \in Spellings}
    /\ allowedNil \in BOOLEAN
    /\ aclKind \in {"Basic", "BasicNet"} \cup Stubs
    /\ netAllowed \in NetSlots
    /\ pc \in [Procs -> {"idle", "lock", "read", "unlock", "dispatch", "done"}]
    /\ op \in [Procs -> {"Add", "Remove", "Permitted", "Serve"} \cup CodecOps
                        \cup Lookups]
    /\ \A p \in Procs : DOMAIN ret[p] = DOMAIN NoRet
    /\ res \in [Procs -> BOOLEAN]
    /\ recording \in BOOLEAN
    /\ tracking \in BOOLEAN
    /\ req \in [Procs -> RemoteAddrs \cup {NoReq}]

InitCommon ==
    /\ writer = NoProc
    /\ readers = {}
    /\ allowed = {}
    /\ netAllowed = <<>>
    /\ pc = [p \in Procs |-> "idle"]
    /\ op = [p \in Procs |-> "Permitted"]
    /\ arg = [p \in Procs |-> NilIP]
    /\ res = [p \in Procs |-> FALSE]
    /\ hist = [p \in Procs |-> <<>>]
    /\ last = [a \in AllIPs |-> "none"]
    /\ lastK = [k \in Keys |-> "none"]
    /\ sure = [p \in Procs |-> "none"]
    /\ sureK = [p \in Procs |-> "none"]
    /\ handler = NoHandler
    /\ req = [p \in Procs |-> NoReq]
    /\ out = [p \in Procs |-> NoOut]
    /\ allowedNil = FALSE
    /\ ret = [p \in Procs |-> NoRet]

\* NewBasic, of either package; callers idle.
InitBasic ==
    /\ InitCommon
    /\ aclKind = "Basic"
    /\ lockKind \in {"Mutex", "RWMutex"}
    /\ tracking = TRUE

Init == InitBasic /\ recording = FALSE

InitLin == InitBasic /\ recording = TRUE

\* NewBasic, NewBasicNet, NewHostStub or NewNetStub; no Handler yet.
InitHTTP ==
    /\ InitCommon
    /\ aclKind \in {"Basic", "BasicNet"} \cup Stubs
    /\ lockKind \in IF aclKind = "Basic" THEN {"Mutex", "RWMutex"} ELSE {"Mutex"}
    /\ recording = FALSE
    /\ tracking = TRUE

\* The calls of Add that have not yet appended, and the longest slice the
\* ACL holds or a decode under way will store: the slice is kept within
\* MaxNets entries.
PendingAdds == Cardinality({q \in Procs : pc[q] = "lock" /\ op[q] = "Add"})

PendingLen ==
    Max({Len(netAllowed)} \cup
        {Len(Tokens(arg[q])) : q \in {r \in Procs : pc[r] = "lock"
                                        /\ op[r] = "UnmarshalJSON"}})

\* A caller calls Add, Remove or Permitted on the ACL.  The call returns at
\* once on a stub, on an invalid address and on a nil network.
Call(p, o, a) ==
    /\ pc[p] = "idle"
    /\ recording => (a \in LinIPs /\ Len(hist[p]) < MaxOps)
    /\ (aclKind = "BasicNet" /\ o = "Add") =>
          PendingLen + PendingAdds < MaxNets
    /\ op' = [op EXCEPT ![p] = o]
    /\ arg' = [arg EXCEPT ![p] = a]
    /\ IF EarlyReturn(aclKind, o, a)
       THEN /\ pc' = [pc EXCEPT ![p] = "done"]
            /\ res' = [res EXCEPT ![p] = EarlyResult(aclKind, o)]
            /\ Record(p, o, a, EarlyResult(aclKind, o))
            /\ UNCHANGED <<last, lastK, sure, sureK>>
       ELSE /\ pc' = [pc EXCEPT ![p] = "lock"]
            /\ res' = [res EXCEPT ![p] = FALSE]
            /\ IF tracking /\ aclKind = "Basic"
               THEN GhostCall(p, o, a)
               ELSE UNCHANGED <<last, lastK, sure, sureK>>
            /\ UNCHANGED hist
    /\ ret' = [ret EXCEPT ![p] = NoRet]
    /\ UNCHANGED <<aclVars, recording, tracking, httpVars, allowedNil>>

\* NewHandler(allow, deny, wl)
NewHandler(a, d, w) ==
    /\ ~handler.live
    /\ handler' = NewHandlerResult(a, d, w)
    /\ UNCHANGED <<aclVars, callVars, ghostVars, req, out, codecVars>>

\* Handler.ServeHTTP up to the call of Permitted: the lookup, the 500 on a
\* lookup error, and the start of h.whitelist.Permitted(ip).  A nil ACL
\* cannot be called.
ServeHTTP(p, r) ==
    /\ pc[p] = "idle"
    /\ handler.live
    /\ LET lk == Address(r)
           stage == IF LookupFailed(lk) THEN "error"
                    ELSE IF ~handler.acl THEN "panic"
                    ELSE IF EarlyReturn(aclKind, "Serve", lk.ip) THEN "dispatch"
                    ELSE "lock"
       IN  /\ op' = [op EXCEPT ![p] = "Serve"]
           /\ arg' = [arg EXCEPT ![p] = lk.ip]
           /\ req' = [req EXCEPT ![p] = r]
           /\ res' = [res EXCEPT ![p] =
                        stage = "dispatch" /\ EarlyResult(aclKind, "Serve")]
           /\ pc' = [pc EXCEPT ![p] =
                       IF stage \in {"error", "panic"} THEN "done" ELSE stage]
           /\ out' = [out EXCEPT ![p] =
                        CASE stage = "error" ->
                                [NoOut EXCEPT !.state = "InternalError",
                                              !.status = 500]
                          [] stage = "panic" -> [NoOut EXCEPT !.state = "Panic"]
                          [] OTHER -> [NoOut EXCEPT !.asked = TRUE]]
           /\ IF tracking /\ stage = "lock" /\ aclKind = "Basic"
              THEN GhostCall(p, "Permitted", lk.ip)
              ELSE UNCHANGED <<last, lastK, sure, sureK>>
    /\ UNCHANGED <<aclVars, hist, recording, tracking, handler, codecVars>>

\* The fixed inputs of Basic.UnmarshalJSON and of BasicNet.UnmarshalJSON.
WireInputs(kind) ==
    IF kind = "Basic"
    THEN { <<>>, <<Quote>>, <<Quote, Quote>>,
           <<Quote, "127.0.0.1", Comma, Space, Comma, "::1", Quote>>,
           <<Quote, "10.0.1.15", Comma, "192.168.2", Quote>>,
           <<Quote, "::ffff:127.0.0.1", Quote>>,
           <<"127.0.0.1">> }
    ELSE { <<>>, <<Quote>>, <<Quote, Quote>>,
           <<Quote, "127.0.0.1/32", Comma, "127.0.0.0/8", Quote>>,
           <<Quote, "127.0.0.1/32", Comma, "127.0.0.1", Quote>>,
           <<"127.0.0.1/32">> }

\* The fixed inputs of LoadBasic.
FileInputs ==
    { <<"10.0.1.15", NL, "127.0.0.1">>,
      <<"127.0.0.1", NL, "192.168.2", NL, "::1">>,
      <<"192.168.2", NL, "127.0.0.1">> }

\* The bytes p holds from the encode o it has just completed.
Encoded(p, o) == pc[p] = "done" /\ op[p] = o /\ ~ret[p].fault

\* A caller calls MarshalJSON or DumpBasic.  Basic takes the lock for
\* both; BasicNet.MarshalJSON takes none.
Encode(p, o) ==
    /\ pc[p] = "idle"
    /\ aclKind = "Basic" \/ (aclKind = "BasicNet" /\ o = "MarshalJSON")
    /\ op' = [op EXCEPT ![p] = o]
    /\ arg' = [arg EXCEPT ![p] = <<>>]
    /\ pc' = [pc EXCEPT ![p] = IF aclKind = "Basic" THEN "lock" ELSE "read"]
    /\ ret' = [ret EXCEPT ![p] = NoRet]
    /\ UNCHANGED <<aclVars, res, ghostVars, httpVars, allowedNil>>

\* BasicNet.MarshalJSON: the range over acl.allowed, made without the lock.
\* When a goroutine that changes the slice is inside its section the read
\* races with the write and can see any slice.
ReadUnlocked(p) ==
    /\ pc[p] = "read"
    /\ \E l \in IF \E q \in Procs \ {p} : InCS(q) /\ Mutates(op[q])
               THEN NetSlots ELSE {netAllowed} :
          ret' = [ret EXCEPT ![p].bytes = MarshalBytes(NetStrings(l)),
                             ![p].touched = TRUE,
                             ![p].held = writer = p]
    /\ pc' = [pc EXCEPT ![p] = "done"]
    /\ UNCHANGED <<aclVars, op, arg, res, ghostVars, httpVars, allowedNil>>

\* A caller calls UnmarshalJSON(in), on a fixed input or on the bytes it
\* has from MarshalJSON.  The quote check comes before the lock.
Decode(p, in) ==
    /\ aclKind \in {"Basic", "BasicNet"}
    /\ \/ pc[p] = "idle" /\ in \in WireInputs(aclKind)
       \/ Encoded(p, "MarshalJSON") /\ in = ret[p].bytes
    /\ (aclKind = "BasicNet" /\ ~OutOfRange(in) /\ ~Unquoted(in)) =>
          Len(Tokens(in)) + PendingAdds <= MaxNets
    /\ op' = [op EXCEPT ![p] = "UnmarshalJSON"]
    /\ arg' = [arg EXCEPT ![p] = in]
    /\ pc' = [pc EXCEPT ![p] =
                IF OutOfRange(in) \/ Unquoted(in) THEN "done" ELSE "lock"]
    /\ ret' = [ret EXCEPT ![p] =
                 [NoRet EXCEPT
                    !.src = IF pc[p] = "idle" THEN "" ELSE "MarshalJSON",
                    !.snap = ret[p].snap,
                    !.snapNet = ret[p].snapNet,
                    !.fault = OutOfRange(in),
                    !.err = IF ~OutOfRange(in) /\ Unquoted(in)
                            THEN "allowed: invalid allowed" ELSE ""]]
    /\ UNCHANGED <<aclVars, res, ghostVars, httpVars, allowedNil>>

\* A caller calls LoadBasic(in), on a fixed input or on the bytes it has
\* from DumpBasic, and dumps the ACL it gets.  The ACL is a new one.
Load(p, in) ==
    /\ aclKind = "Basic"
    /\ \/ pc[p] = "idle" /\ in \in FileInputs
       \/ Encoded(p, "DumpBasic") /\ in = ret[p].bytes
    /\ op' = [op EXCEPT ![p] = "LoadBasic"]
    /\ arg' = [arg EXCEPT ![p] = in]
    /\ pc' = [pc EXCEPT ![p] = "done"]
    /\ ret' = [ret EXCEPT ![p] =
                 [NoRet EXCEPT
                    !.src = IF pc[p] = "idle" THEN "" ELSE "DumpBasic",
                    !.snap = ret[p].snap,
                    !.err = LoadBasic(in).err,
                    !.nilacl = LoadBasic(in).nilacl,
                    !.acl = LoadBasic(in).acl,
                    !.redump = DumpBasic(LoadBasic(in).acl)]]
    /\ UNCHANGED <<aclVars, res, ghostVars, httpVars, allowedNil>>

\* What MarshalJSON, DumpBasic and UnmarshalJSON do under the lock.
CodecAccess(p) ==
    CASE op[p] = "DumpBasic" ->
            /\ ret' = [ret EXCEPT ![p].bytes = DumpBasic(allowed),
                                  ![p].snap = allowed,
                                  ![p].touched = TRUE, ![p].held = TRUE]
            /\ UNCHANGED <<allowed, netAllowed, allowedNil>>
      [] op[p] = "MarshalJSON" ->
            /\ \E ss \in Orders(allowed) :
                  ret' = [ret EXCEPT ![p].bytes = MarshalBytes(ss),
                                    ![p].snap = allowed,
                                    ![p].touched = TRUE, ![p].held = TRUE]
            /\ UNCHANGED <<allowed, netAllowed, allowedNil>>
      [] op[p] = "UnmarshalJSON" /\ BadSlice(arg[p]) ->
            /\ ret' = [ret EXCEPT ![p].fault = TRUE]
            /\ UNCHANGED <<allowed, netAllowed, allowedNil>>
      [] op[p] = "UnmarshalJSON" /\ aclKind = "Basic" ->
            /\ allowed' = UnmarshalHost(arg[p]).allowed
            /\ allowedNil' = UnmarshalHost(arg[p]).nilmap
            /\ ret' = [ret EXCEPT ![p].err = UnmarshalHost(arg[p]).err,
                                  ![p].touched = TRUE, ![p].held = TRUE]
            /\ UNCHANGED netAllowed
      [] op[p] = "UnmarshalJSON" /\ aclKind = "BasicNet" ->
            /\ netAllowed' = UnmarshalNet(arg[p]).allowed
            /\ ret' = [ret EXCEPT ![p].err = UnmarshalNet(arg[p]).err,
                                  ![p].touched = TRUE, ![p].held = TRUE]
            /\ UNCHANGED <<allowed, allowedNil>>

\* acl.lock.Lock() / wl.lock.RLock(), and the access to the map or slice
\* made under the lock.  Nothing of the caller's own lies between the two,
\* so they are one step; the section lasts until Release.  An access that
\* races with another goroutine's has no defined outcome.
Enter(p) ==
    /\ CanEnter(p)
    /\ IF LockMode(lockKind, op[p]) = "shared"
       THEN readers' = readers \cup {p} /\ UNCHANGED writer
       ELSE writer' = p /\ UNCHANGED readers
    /\ IF Race(p)
       THEN /\ allowed' \in SUBSET Keys
            /\ netAllowed' \in {netAllowed, <<>>}
            /\ \E b \in BOOLEAN : res' = [res EXCEPT ![p] = b]
            /\ UNCHANGED codecVars
       ELSE IF op[p] \in CodecOps
       THEN CodecAccess(p) /\ UNCHANGED res
       ELSE IF aclKind = "Basic"
       THEN /\ allowed' = IF allowedNil THEN allowed
                          ELSE BasicEffect(op[p], allowed, arg[p])
            /\ res' = [res EXCEPT ![p] =
                         ~Writes(op[p]) /\ BasicLookup(allowed, arg[p])]
            /\ ret' = [ret EXCEPT ![p].fault = allowedNil /\ op[p] = "Add",
                                  ![p].snap = allowed]
            /\ UNCHANGED <<netAllowed, allowedNil>>
       ELSE /\ netAllowed' = NetEffect(op[p], netAllowed, arg[p])
            /\ res' = [res EXCEPT ![p] =
                         /\ ~Writes(op[p])
                         /\ ~NetPanics(netAllowed, arg[p])
                         /\ NetLookup(netAllowed, arg[p])]
            /\ ret' = [ret EXCEPT ![p].fault =
                         ~Writes(op[p]) /\ NetPanics(netAllowed, arg[p]),
                                  ![p].snapNet = netAllowed]
            /\ UNCHANGED <<allowed, allowedNil>>
    /\ pc' = [pc EXCEPT ![p] = "unlock"]
    /\ UNCHANGED <<lockKind, aclKind, op, arg, ghostVars, httpVars>>

\* acl.lock.Unlock() / wl.lock.RUnlock(), and the return of the ACL call.
Release(p) ==
    /\ pc[p] = "unlock"
    /\ writer' = Unlock(writer, p)
    /\ readers' = readers \ {p}
    /\ pc' = [pc EXCEPT ![p] = IF op[p] = "Serve" THEN "dispatch" ELSE "done"]
    /\ IF tracking /\ aclKind = "Basic" /\ op[p] \notin CodecOps
       THEN GhostReturn(p, op[p], arg[p])
       ELSE UNCHANGED <<last, lastK, sure, sureK>>
    /\ Record(p, op[p], arg[p], res[p])
    /\ ret' = IF op[p] \in CodecOps THEN ret
              ELSE [ret EXCEPT ![p].snapNet = <<>>, ![p].snap = {}]
    /\ UNCHANGED <<lockKind, allowed, aclKind, netAllowed, op, arg, res,
                   recording, tracking, httpVars, allowedNil>>

\* The rest of Handler.ServeHTTP: the allow handler, the deny handler or
\* the 401.
Dispatch(p) ==
    /\ pc[p] = "dispatch"
    /\ out' = [out EXCEPT ![p] = Outcome(Route(res[p], handler), handler, @)]
    /\ pc' = [pc EXCEPT ![p] = "done"]
    /\ UNCHANGED <<aclVars, op, arg, res, ghostVars, handler, req, codecVars>>

\* The caller has looked at the result and is ready for its next call.
Return(p) ==
    /\ pc[p] = "done"
    /\ pc' = [pc EXCEPT ![p] = "idle"]
    /\ op' = [op EXCEPT ![p] = "Permitted"]
    /\ arg' = [arg EXCEPT ![p] = NilIP]
    /\ res' = [res EXCEPT ![p] = FALSE]
    /\ sure' = [sure EXCEPT ![p] = "none"]
    /\ sureK' = [sureK EXCEPT ![p] = "none"]
    /\ req' = [req EXCEPT ![p] = NoReq]
    /\ out' = [out EXCEPT ![p] = NoOut]
    /\ ret' = [ret EXCEPT ![p] = NoRet]
    /\ UNCHANGED <<aclVars, hist, recording, tracking, last, lastK, handler,
                   allowedNil>>

\* Concurrent callers of one host ACL.
Next ==
    \E p \in Procs :
        \/ \E o \in {"Add", "Remove", "Permitted"}, a \in IPs : Call(p, o, a)
        \/ Enter(p)
        \/ Release(p)
        \/ Return(p)

Spec == Init /\ [][Next]_vars

SpecLin == InitLin /\ [][Next]_vars

\* The addresses callers add to an ACL while others are never added, and
\* the addresses they remove and look up.
FreshAdds == {V4Lo, V6Lo, ShortIP}
FreshProbes == IPs \cup {V4Ten, MappedTen}

\* Concurrent callers of one host ACL to which some addresses are never
\* added.
NextFresh ==
    \E p \in Procs :
        \/ \E a \in FreshAdds : Call(p, "Add", a)
        \/ \E o \in {"Remove", "Permitted"}, a \in FreshProbes : Call(p, o, a)
        \/ Enter(p)
        \/ Release(p)
        \/ Return(p)

SpecFresh == Init /\ [][NextFresh]_vars

\* What callers add to and remove from the ACL behind a Handler.
AdminArgs(kind) ==
    IF kind \in {"Basic", "HostStub"} THEN {V4Lo, V6Lo} ELSE Nets

\* Requests served through a Handler while the ACL is administered.
NextHTTP ==
    \/ \E a, d, w \in BOOLEAN : NewHandler(a, d, w)
    \/ \E p \in Procs :
        \/ \E r \in RemoteAddrs : ServeHTTP(p, r)
        \/ \E o \in {"Add", "Remove"} :
              \E a \in AdminArgs(aclKind) : Call(p, o, a)
        \/ Enter(p)
        \/ Release(p)
        \/ Dispatch(p)
        \/ Return(p)

SpecHTTP == InitHTTP /\ [][NextHTTP]_vars

\* NewBasic or NewBasicNet of package netallow; callers idle.
InitCodec ==
    /\ InitCommon
    /\ aclKind \in {"Basic", "BasicNet"}
    /\ lockKind = "Mutex"
    /\ recording = FALSE
    /\ tracking = FALSE

\* What callers add to, remove from and look up in an ACL that is encoded
\* and decoded.
CodecArgs(kind) == IF kind = "Basic" THEN CodecIPs ELSE Nets
CodecProbes(kind) == IF kind = "Basic" THEN {V4Lo, MappedLo} ELSE {V4Lo, ShortIP}

\* The goroutine that encodes and decodes, and those that administer and
\* query the ACL meanwhile.
Coders == {"g1"}
Admins == Procs \ Coders

\* Concurrent callers of an ACL and of its codecs.
NextCodec ==
    \/ \E p \in Admins :
        \/ \E o \in {"Add", "Remove"} :
              \E a \in CodecArgs(aclKind) : Call(p, o, a)
        \/ \E a \in CodecProbes(aclKind) : Call(p, "Permitted", a)
    \/ \E p \in Coders :
        \/ \E o \in {"MarshalJSON", "DumpBasic"} : Encode(p, o)
        \/ ReadUnlocked(p)
        \/ \E in \in WireInputs(aclKind) \cup {ret[p].bytes} : Decode(p, in)
        \/ \E in \in FileInputs \cup {ret[p].bytes} : Load(p, in)
    \/ \E p \in Procs :
        \/ Enter(p)
        \/ Release(p)
        \/ Return(p)

SpecCodec == InitCodec /\ [][NextCodec]_vars

\* NewBasic of either package, or NewBasicNet.
InitLive ==
    /\ InitCommon
    /\ aclKind \in {"Basic", "BasicNet"}
    /\ lockKind \in IF aclKind = "Basic" THEN {"Mutex", "RWMutex"} ELSE {"Mutex"}
    /\ recording = FALSE
    /\ tracking = FALSE

\* The scheduler runs every goroutine that can take a step, and the lock
\* is handed to a goroutine that keeps waiting for it: sync.Mutex hands
\* over to the longest waiter once it has waited long enough, and a waiting
\* writer of a sync.RWMutex holds new readers back.
\* The fairness of Enter is strong fairness, SF_vars(Enter(p)), with the
\* enabling condition of Enter written out as CanEnter.
Fairness ==
    \A p \in Procs :
        /\ []<>CanEnter(p) => []<><<Enter(p)>>_vars
        /\ WF_vars(Release(p))
        /\ WF_vars(ReadUnlocked(p))

SpecLive == InitLive /\ [][NextCodec]_vars /\ Fairness

\* A caller calls Address of the lookup lu with the arguments args: the
\* call touches no ACL and takes no lock.
LookupCall(p, lu, args) ==
    /\ pc[p] = "idle"
    /\ pc' = [pc EXCEPT ![p] = "done"]
    /\ op' = [op EXCEPT ![p] = lu]
    /\ arg' = [arg EXCEPT ![p] = args]
    /\ ret' = [ret EXCEPT ![p] = [NoRet EXCEPT
                   !.ip = LookupAddress(lu, args).ip,
                   !.err = LookupAddress(lu, args).err,
                   !.fault = LookupAddress(lu, args).panic]]
    /\ UNCHANGED <<aclVars, res, ghostVars, httpVars, allowedNil>>

\* Callers of the two lookups.
NextLookup ==
    \E p \in Procs :
        \/ \E lu \in Lookups, args \in LookupArgs : LookupCall(p, lu, args)
        \/ Return(p)

SpecLookup == InitCodec /\ [][NextLookup]_vars

----------------------------------------------------------------------------
(* Claims about the host ACL *)

BadLen(ip) == Len(ip) # 4 /\ Len(ip) # 16

\* p has returned from Permitted and holds its result.
Answered(p) == pc[p] = "done" /\ op[p] = "Permitted"

\* C1 as stated: a Permitted(a) called after an Add(a) has returned, with no
\* Remove(a) of that same byte slice called since, returns true.
C1_AddThenPermitted_AsStated ==
    \A p \in Procs :
        (Answered(p) /\ ~BadLen(arg[p]) /\ sure[p] = "add") => res[p] = TRUE

\* C1 amended: a Permitted(a) called after an Add(a) has returned returns
\* true when no Remove of an address with the textual form of a (a itself,
\* or the other byte length of the same IPv4 address) was called since.
C1_AddThenPermitted ==
    \A p \in Procs :
        (Answered(p) /\ ~BadLen(arg[p]) /\ sureK[p] = "add") => res[p] = TRUE

C1_Witness ==
    \E p \in Procs :
        Answered(p) /\ ~BadLen(arg[p]) /\ sureK[p] = "add" /\ res[p] = TRUE

\* C2 as stated: a Permitted(a) called after a Remove(a) has returned, with
\* no Add(a) of that same byte slice called since, returns false.
C2_RemoveThenPermitted_AsStated ==
    \A p \in Procs :
        (Answered(p) /\ ~BadLen(arg[p]) /\ sure[p] = "rem") => res[p] = FALSE

\* C2 amended: a Permitted(a) called after a Remove(a) has returned returns
\* false when no Add of an address with the textual form of a (a itself, or
\* the other byte length of the same IPv4 address) was called since.
C2_RemoveThenPermitted ==
    \A p \in Procs :
        (Answered(p) /\ ~BadLen(arg[p]) /\ sureK[p] = "rem") => res[p] = FALSE

\* The Remove took a member out: another member is still there.
C2_Witness ==
    \E p \in Procs :
        /\ Answered(p) /\ ~BadLen(arg[p]) /\ sureK[p] = "rem"
        /\ res[p] = FALSE
        /\ allowed # {}

\* C3: a call with an address whose length is neither 4 nor 16 returns at
\* the call itself, never taking the lock: Permitted returns false, and Add
\* and Remove leave the membership as it was.
C3_InvalidAddress ==
    [][\A p \in Procs :
          (pc[p] = "idle" /\ pc'[p] # "idle" /\ BadLen(arg'[p]))
              => (pc'[p] = "done" /\ res'[p] = FALSE /\ allowed' = allowed)]_vars

\* Permitted(a) is false for an invalid a after Add(a), with members present.
C3_Witness ==
    \E p, q \in Procs :
        /\ Answered(p) /\ BadLen(arg[p]) /\ res[p] = FALSE
        /\ pc[q] = "done" /\ op[q] = "Add" /\ arg[q] = arg[p]
        /\ allowed # {}

\* The sequential meaning of one recorded call <<o, a, r>> on membership m.
SeqAfter(m, e) ==
    IF BadLen(e[2]) THEN m
    ELSE IF e[1] = "Add" THEN m \cup {String(e[2])}
    ELSE IF e[1] = "Remove" THEN m \ {String(e[2])}
    ELSE m

SeqResult(m, e) == e[1] = "Permitted" /\ ~BadLen(e[2]) /\ String(e[2]) \in m

\* Some interleaving of the remaining recorded calls hs, run one call at a
\* time from membership m, returns what was recorded and ends in `allowed`.
RECURSIVE Serializable(_, _)
Serializable(hs, m) ==
    IF \A p \in Procs : hs[p] = <<>>
    THEN m = allowed
    ELSE \E p \in Procs :
            /\ hs[p] # <<>>
            /\ Head(hs[p])[3] = SeqResult(m, Head(hs[p]))
            /\ Serializable([hs EXCEPT ![p] = Tail(@)], SeqAfter(m, Head(hs[p])))

Quiescent == \A p \in Procs : pc[p] = "idle"

\* C9: when no call is under way, the results the concurrent callers got
\* and the membership are those of some total order of the calls that keeps
\* each caller's own order.
C9_Serializable == Quiescent => Serializable(hist, {})

\* Both callers changed and read the same key, and a member is left.
C9_Witness ==
    /\ Quiescent
    /\ allowed # {}
    /\ \A p \in Procs :
          /\ Len(hist[p]) >= 2
          /\ \E i \in 1..Len(hist[p]) : hist[p][i][1] \in {"Add", "Remove"}
          /\ \E i \in 1..Len(hist[p]) : hist[p][i] = <<"Permitted", V4Lo, TRUE>>

\* C10 as stated: Permitted holds the lock in shared mode, Add and Remove hold it
\* exclusively, alone in the section.
C10_SharedReaders_AsStated ==
    \A p \in Procs :
        InCS(p) =>
            IF Writes(op[p])
            THEN writer = p /\ readers = {}
                 /\ \A q \in Procs \ {p} : ~InCS(q)
            ELSE p \in readers /\ writer = NoProc
                 /\ \A q \in Procs \ {p} : InCS(q) => ~Writes(op[q])

----------------------------------------------------------------------------
(* Claims about the HTTP handler *)

Serving(p) == pc[p] # "idle" /\ op[p] = "Serve"

Served(p) == pc[p] = "done" /\ op[p] = "Serve"

\* C4: a request whose address lookup returns an error ends with the 500
\* response, with no handler run and Permitted never called.
C4_LookupErrorIs500 ==
    \A p \in Procs :
        (Serving(p) /\ Address(req[p]).err # "") =>
            /\ pc[p] = "done"
            /\ out[p] = [state |-> "InternalError", status |-> 500,
                         ran |-> {}, asked |-> FALSE]

\* The ACL would have permitted the caller: it has members.
C4_Witness ==
    \E p \in Procs :
        /\ Served(p) /\ req[p] = AddrNoPort
        /\ out[p].state = "InternalError"
        /\ handler.allow /\ handler.deny /\ handler.acl
        /\ allowed # {}

\* No piece of the RemoteAddr is an address literal.
NoAddressIn(r) ==
    /\ ParseIP(SplitHostPort(r).host) = NilIP
    /\ \A i \in 1..Len(r) : ParseIP(r[i]) = NilIP

\* C5 as stated: a request whose RemoteAddr holds no parseable address never
\* reaches the allow handler, whatever the ACL.
C5_NoAddressNeverAllowed_AsStated ==
    \A p \in Procs :
        (Serving(p) /\ NoAddressIn(req[p])) => "allow" \notin out[p].ran

\* C6 as stated: the allow handler runs for a request exactly when the
\* lookup succeeded and Permitted returned true for the address.
C6_AllowIffPermitted_AsStated ==
    \A p \in Procs :
        Served(p) =>
            ("allow" \in out[p].ran
                <=> (Address(req[p]).err = "" /\ out[p].asked /\ res[p] = TRUE))

\* C7: when Permitted returned false, a configured deny handler is the one
\* handler run; with no deny handler the response is the 401 and no
\* handler runs.
C7_DeniedRoute ==
    \A p \in Procs :
        (Served(p) /\ out[p].asked /\ res[p] = FALSE) =>
            IF handler.deny
            THEN out[p] = [state |-> "DenyDispatched", status |-> 0,
                           ran |-> {"deny"}, asked |-> TRUE]
            ELSE out[p] = [state |-> "Unauthorized", status |-> 401,
                           ran |-> {}, asked |-> TRUE]

\* Both cases at once cannot be: the witness is the 401 of a live ACL with
\* members, for an address that is not one of them.
C7_Witness ==
    \E p \in Procs :
        /\ Served(p) /\ out[p].asked /\ res[p] = FALSE
        /\ out[p].state = "Unauthorized"
        /\ ~handler.deny
        /\ allowed # {}

\* C8 as stated: no Handler exists with a nil ACL or a nil allow handler.
C8_NoNilHandler_AsStated ==
    handler.live => (handler.acl /\ handler.allow)

\* C20 as stated: a stub permits every address, and a Handler backed by a
\* stub runs the allow handler for every request whose lookup succeeded.
C20_StubAllowsAll_AsStated ==
    \A p \in Procs :
        (aclKind \in Stubs /\ Served(p) /\ out[p].asked) =>
            (res[p] = TRUE /\ "allow" \in out[p].ran)

----------------------------------------------------------------------------
(* Claims about the codecs *)

\* The textual forms Add and Remove can put in the map.
CanonKeys == {Key(ip) : ip \in CodecIPs}

\* The address and network literals of the model.
AddressLiterals ==
    {"127.0.0.1", "10.0.1.15", "::1", "::ffff:127.0.0.1", "0:0:0:0:0:0:0:1"}
NetLiterals == {"127.0.0.1/32", "127.0.0.0/8", "127.0.0.1/8"}

\* p has returned from the codec call o.
Coded(p, o) == pc[p] = "done" /\ op[p] = o

\* p has made the access of o and still holds the lock.
Inside(p, o) == pc[p] = "unlock" /\ op[p] = o

\* C11 as stated: an encode or decode that has read or replaced the member
\* collection held the ACL's lock when it did, for host and network ACLs.
C11_CodecUnderLock_AsStated ==
    \A p \in Procs : ret[p].touched => ret[p].held

\* C12 as stated: for a host ACL built by Add and Remove, LoadBasic of its
\* dump succeeds, and the dump of the loaded ACL is the same bytes.
C12_FileRoundTrip_AsStated ==
    \A p \in Procs :
        (Coded(p, "LoadBasic") /\ ret[p].src = "DumpBasic"
           /\ ret[p].snap \subseteq CanonKeys) =>
            /\ ret[p].err = ""
            /\ ~ret[p].nilacl
            /\ ret[p].redump = arg[p]

\* C13 as stated: decoding the encoded form of a host ACL, the empty one
\* included, gives the membership the ACL had when it was encoded, in the
\* flat-file form and in the wire form.
C13_DecodeEncodeMembers_AsStated ==
    \A p \in Procs :
        /\ (Coded(p, "LoadBasic") /\ ret[p].src = "DumpBasic") =>
              (~ret[p].nilacl /\ ret[p].acl = ret[p].snap)
        /\ (Inside(p, "UnmarshalJSON") /\ ret[p].src = "MarshalJSON"
              /\ aclKind = "Basic") =>
              (ret[p].err = "" /\ ~allowedNil /\ allowed = ret[p].snap)

\* The lines of a flat-file input.
Lines(in) == [i \in 1..Len(Split(in, NL)) |-> Concat(Split(in, NL)[i])]

\* C14: LoadBasic of an input with a line that is no address literal returns
\* an error and no ACL, wherever the line stands in the input.
C14_LoadAllOrNothing ==
    \A p \in Procs :
        (Coded(p, "LoadBasic")
           /\ \E i \in 1..Len(Lines(arg[p])) :
                 Lines(arg[p])[i] \notin AddressLiterals) =>
            (ret[p].err # "" /\ ret[p].nilacl /\ ret[p].acl = {})

\* The bad line stands between two good ones.
C14_Witness ==
    \E p \in Procs :
        /\ Coded(p, "LoadBasic")
        /\ arg[p] = <<"127.0.0.1", NL, "192.168.2", NL, "::1">>
        /\ ret[p].nilacl

\* A token of the quoted input is neither blank nor a literal of the kind
\* the ACL holds.
BadToken(in) ==
    \E i \in 1..Len(Tokens(in)) :
        /\ Tokens(in)[i] # ""
        /\ Tokens(in)[i] \notin
              (IF aclKind = "Basic" THEN AddressLiterals ELSE NetLiterals)

\* C15: when a token of its input fails to parse, UnmarshalJSON returns an
\* error and leaves the ACL with no member, good tokens before the bad one
\* included: Permitted is false for every address.
C15_WireAllOrNothing ==
    \A p \in Procs :
        (Inside(p, "UnmarshalJSON") /\ BadToken(arg[p])) =>
            /\ ret[p].err # ""
            /\ allowed = {}
            /\ netAllowed = <<>>
            /\ \A a \in AllIPs :
                  /\ ~BasicLookup(allowed, a)
                  /\ ~NetLookup(netAllowed, a)
                  /\ ~NetPanics(netAllowed, a)

\* A good token comes before the bad one.
C15_Witness ==
    \E p \in Procs :
        /\ Inside(p, "UnmarshalJSON")
        /\ arg[p] \in { <<Quote, "10.0.1.15", Comma, "192.168.2", Quote>>,
                        <<Quote, "127.0.0.1/32", Comma, "127.0.0.1", Quote>> }
        /\ ret[p].err # ""

\* C16: the bytes of DumpBasic are the members, each once, in strictly
\* ascending byte order of their text, with one newline between two: the
\* membership alone fixes the bytes.
C16_DumpSorted ==
    \A p \in Procs :
        (pc[p] \in {"unlock", "done"} /\ op[p] = "DumpBasic") =>
            LET b == ret[p].bytes
                n == Cardinality(ret[p].snap)
            IN  /\ Len(b) = IF n = 0 THEN 0 ELSE 2 * n - 1
                /\ \A i \in 1..n : b[2 * i - 1] \in ret[p].snap
                /\ \A i \in 1..(n - 1) :
                      /\ b[2 * i] = NL
                      /\ StrLess(Letters(b[2 * i - 1]), Letters(b[2 * i + 1]))

\* Three members, which Add put in the map in whatever order.
C16_Witness ==
    \E p \in Procs :
        /\ Coded(p, "DumpBasic")
        /\ ret[p].snap = CanonKeys
        /\ ret[p].bytes = <<"10.0.1.15", NL, "127.0.0.1", NL, "::1">>

----------------------------------------------------------------------------
(* Claims about the network ACL *)

\* C17 as stated: Permitted(a) on a network ACL returns, for an address of
\* valid length, whether a stored network contains a, and false for an
\* address of invalid length.
C17_NetPermitted_AsStated ==
    \A p \in Procs :
        /\ (Inside(p, "Permitted") /\ aclKind = "BasicNet") =>
              /\ ~ret[p].fault
              /\ res[p] = \E i \in 1..Len(netAllowed) :
                             /\ netAllowed[i] # NilNet
                             /\ Contains(netAllowed[i], arg[p])
        /\ (Coded(p, "Permitted") /\ aclKind = "BasicNet" /\ BadLen(arg[p])) =>
              res[p] = FALSE

\* The entries of l whose textual form is t.
Entries(l, t) == {i \in 1..Len(l) : NetString(l[i]) = t}

\* C18: Remove(m) of a network whose textual form no stored entry has
\* leaves the slice as it was, so a network that contains m, or that m
\* contains, stays; and any Remove leaves the entries of other textual
\* forms.
C18_NoSubsumption ==
    \A p \in Procs :
        (Inside(p, "Remove") /\ aclKind = "BasicNet") =>
            /\ Entries(ret[p].snapNet, NetString(arg[p])) = {}
                  => netAllowed = ret[p].snapNet
            /\ \A n \in Nets :
                  NetString(n) # NetString(arg[p]) =>
                      Cardinality(Entries(netAllowed, NetString(n)))
                          = Cardinality(Entries(ret[p].snapNet, NetString(n)))

\* Remove of 127.0.0.1/32 from an ACL that holds 127.0.0.0/8 only.
C18_Witness ==
    \E p \in Procs :
        /\ Inside(p, "Remove") /\ aclKind = "BasicNet"
        /\ arg[p] = Lo32
        /\ ret[p].snapNet = <<Lo8>>
        /\ netAllowed = <<Lo8>>
        /\ NetLookup(netAllowed, V4Lo)

\* C19 as stated: when Remove(n) has done its work no stored network has
\* the textual form of n, however often n was added.
C19_RemoveRevokes_AsStated ==
    \A p \in Procs :
        (Inside(p, "Remove") /\ aclKind = "BasicNet") =>
            Entries(netAllowed, NetString(arg[p])) = {}

\* C21 as stated: the host ACL holds the 4-byte and the IPv4-mapped 16-byte
\* form of an IPv4 address as distinct addresses, so that an Add of one form
\* never makes the other Permitted: an address whose own Remove has returned,
\* with no Add of that same byte slice called since, is not a member.
C21_FormsDistinct_AsStated ==
    \A a \in ValidIPs : last[a] = "rem" => ~BasicLookup(allowed, a)

\* C21 amended: the host ACL identifies an address by its textual form.  Once
\* an Add of a has returned, with no Remove of that textual form called
\* since, every address with the textual form of a is a member (the other
\* byte length of the same IPv4 address included); an address whose textual
\* form was last removed is no member whatever was added under another
\* textual form (::1 added does not admit 127.0.0.1).
C21_FormsByText ==
    \A a \in ValidIPs :
        /\ lastK[Key(a)] = "add" =>
               \A b \in ValidIPs :
                   StringOf[b] = StringOf[a] => BasicLookup(allowed, b)
        /\ lastK[Key(a)] = "rem" => ~BasicLookup(allowed, a)

\* The 4-byte 127.0.0.1 was added and its 16-byte form never was; ::1 was
\* added and removed again.
C21_Witness ==
    /\ last[V4Lo] = "add" /\ last[MappedLo] = "none"
    /\ BasicLookup(allowed, MappedLo)
    /\ lastK[Key(V6Lo)] = "rem" /\ ~BasicLookup(allowed, V6Lo)
    /\ \A p \in Procs : pc[p] = "idle"

\* A call of Address of a lookup has returned or panicked.
Looked(p) == pc[p] = "done" /\ op[p] \in Lookups

\* The type the lookup asks of its one argument.
Wanted(lu) == IF lu = "NetConnLookup" THEN "net.Conn" ELSE "*http.Request"

\* C22: both lookups fail with an error and return no address when called
\* with no argument, with more than one argument, or with one argument of
\* the wrong kind, the nil interface included.
C22_InvalidSource ==
    \A p \in Procs :
        (Looked(p) /\ (Len(arg[p]) # 1 \/ arg[p][1].kind # Wanted(op[p])))
            => /\ ret[p].err # ""
               /\ ret[p].ip = NilIP
               /\ ~ret[p].fault

\* One caller passed nil to the request lookup while the other passed two
\* connections to the connection lookup.
C22_Witness ==
    \E p, q \in Procs :
        /\ Looked(p) /\ op[p] = "HTTPRequestLookup" /\ arg[p] = <<NilArg>>
        /\ ret[p].err = "whitelist: lookup requires a *http.Request"
        /\ Looked(q) /\ op[q] = "NetConnLookup" /\ Len(arg[q]) = 2
        /\ ret[q].err = "whitelist: lookup requires a net.Conn"

\* C23 as stated: a lookup that returns without an error returns an
\* address: a host that does not parse as an IP address is an error, never
\* a nil address with a nil error.
C23_NoAddress_AsStated ==
    \A p \in Procs :
        (Looked(p) /\ ~ret[p].fault /\ ret[p].err = "") => ret[p].ip # NilIP

\* C24: the connection lookup returns the error "no address returned", and
\* neither panics nor returns an address, when RemoteAddr() is nil.
C24_NilRemoteAddr ==
    \A p \in Procs :
        (Looked(p) /\ op[p] = "NetConnLookup" /\ arg[p] = <<ConnNoAddr>>)
            => /\ ret[p].err = "whitelist: no address returned"
               /\ ret[p].ip = NilIP
               /\ ~ret[p].fault

C24_Witness ==
    \E p \in Procs :
        /\ Looked(p) /\ op[p] = "NetConnLookup" /\ arg[p] = <<ConnNoAddr>>
        /\ ret[p].err = "whitelist: no address returned"

\* The terminal states of a request.
Terminals == {"InternalError", "Unauthorized", "AllowDispatched", "DenyDispatched"}

\* C25 as stated: every request the middleware has processed is in exactly
\* one of the terminal states InternalError, Unauthorized, AllowDispatched
\* and DenyDispatched, having produced exactly the output of that state: the
\* allow handler, the deny handler or a status response, never two of them.
C25_OneTerminalState_AsStated ==
    \A p \in Procs :
        Served(p) =>
            /\ out[p].state \in Terminals
            /\ out[p].ran = CASE out[p].state = "AllowDispatched" -> {"allow"}
                              [] out[p].state = "DenyDispatched" -> {"deny"}
                              [] OTHER -> {}
            /\ out[p].status = CASE out[p].state = "InternalError" -> 500
                                 [] out[p].state = "Unauthorized" -> 401
                                 [] OTHER -> 0

\* C26 as stated: an address that was never added, as the byte slice it
\* is, is never Permitted by a live host ACL, whatever is added, removed and
\* looked up concurrently.
C26_NeverAdded_AsStated ==
    \A p \in Procs :
        (Answered(p) /\ arg[p] \notin FreshAdds) => res[p] = FALSE

\* C26 amended: an address is never Permitted by a live host ACL when no
\* address with its textual form was ever added, whatever is added, removed
\* and looked up concurrently; so an ACL to which nothing was added permits
\* nothing.
C26_NeverAdded ==
    \A p \in Procs :
        (Answered(p) /\ \A a \in FreshAdds : StringOf[a] # StringOf[arg[p]])
            => res[p] = FALSE

\* The 16-byte 10.0.1.15 is refused by an ACL that holds other members while
\* another caller is adding to it.
C26_Witness ==
    \E p, q \in Procs :
        /\ Answered(p) /\ arg[p] = MappedTen /\ res[p] = FALSE
        /\ allowed = {Key(V4Lo), Key(V6Lo)}
        /\ pc[q] = "unlock" /\ op[q] = "Add"

\* C27: a host Remove(a) of a valid address a that is no member leaves the
\* membership, and so the answer of Permitted for every address, as it was.
C27_RemoveAbsent ==
    \A p \in Procs :
        (Inside(p, "Remove") /\ aclKind = "Basic"
         /\ ~BasicLookup(ret[p].snap, arg[p]))
            => /\ allowed = ret[p].snap
               /\ \A b \in AllIPs :
                     BasicLookup(allowed, b) = BasicLookup(ret[p].snap, b)

\* ::1 is removed from an ACL that holds only 127.0.0.1.
C27_Witness ==
    \E p \in Procs :
        /\ Inside(p, "Remove") /\ aclKind = "Basic" /\ arg[p] = V6Lo
        /\ ret[p].snap = {Key(V4Lo)}
        /\ allowed = {Key(V4Lo)}

\* C28: a call of Permitted, of a host or of a network ACL and with any
\* address, leaves the map and the slice, its order included, as they were:
\* in the step that returns early and in the step under the lock.
C28_PermittedPure ==
    [][\A p \in Procs :
          (pc'[p] # pc[p] /\ pc[p] \in {"idle", "lock"} /\ op'[p] = "Permitted")
              => (allowed' = allowed /\ netAllowed' = netAllowed
                  /\ allowedNil' = allowedNil)]_vars

\* A Permitted that found its address among two networks.
C28_Witness ==
    \E p \in Procs :
        /\ Inside(p, "Permitted") /\ aclKind = "BasicNet" /\ res[p] = TRUE
        /\ Len(netAllowed) = 2
        /\ ret[p].snapNet = netAllowed

C30_NoNilSlot_AsStated ==
    /\ \A p \in Procs :
          (Inside(p, "UnmarshalJSON") /\ aclKind = "BasicNet"
           /\ ret[p].err = "" /\ ~ret[p].fault)
              => \A i \in 1..Len(netAllowed) : netAllowed[i] # NilNet
    /\ \A p \in Procs :
          (aclKind = "BasicNet" /\ pc[p] \in {"unlock", "done"}
           /\ op[p] = "Permitted") => ~ret[p].fault

\* C31 as stated: on a host ACL whose last decode of the wire form failed,
\* an Add(a) of a valid address completes normally and leaves a a member.
C31_UsableAfterFailedDecode_AsStated ==
    \A p \in Procs :
        (aclKind = "Basic" /\ allowedNil /\ Inside(p, "Add"))
            => (~ret[p].fault /\ BasicLookup(allowed, arg[p]))

\* The non-blank tokens of a payload.
Literals(in) == {Tokens(in)[i] : i \in 1..Len(Tokens(in))} \ {""}

\* C32 as stated: after a decode of the wire form into a host ACL that
\* returned no error, every address literal of the payload, parsed, is
\* Permitted, however the literal was written.
C32_DecodedLiteralsPermitted_AsStated ==
    \A p \in Procs :
        (aclKind = "Basic" /\ Inside(p, "UnmarshalJSON") /\ ret[p].err = ""
         /\ ~ret[p].fault)
            => \A t \in Literals(arg[p]) : BasicLookup(allowed, ParseIP(t))

\* The networks of the non-blank tokens of a payload, in order.
RECURSIVE ParsedNets(_)
ParsedNets(toks) ==
    IF toks = <<>> THEN <<>>
    ELSE IF Head(toks) = "" THEN ParsedNets(Tail(toks))
    ELSE <<ParseCIDR(Head(toks)).net>> \o ParsedNets(Tail(toks))

\* C33 as stated: a decode of the wire form that returned no error replaces
\* the membership: the members are then exactly those of the payload (a
\* valid address is Permitted by a host ACL exactly when the payload holds
\* a literal of it, a network ACL holds exactly the payload's networks),
\* whatever the ACL held before.
C33_DecodeReplaces_AsStated ==
    \A p \in Procs :
        (Inside(p, "UnmarshalJSON") /\ ret[p].err = "" /\ ~ret[p].fault)
            => IF aclKind = "Basic"
               THEN \A a \in ValidIPs :
                       BasicLookup(allowed, a) <=>
                           \E t \in Literals(arg[p]) :
                               StringOf[ParseIP(t)] = StringOf[a]
               ELSE netAllowed = ParsedNets(Tokens(arg[p]))

\* The input has a first and a last byte that are two double quotes.
Enclosed(in) == Len(in) >= 2 /\ in[1] = Quote /\ in[Len(in)] = Quote

\* C34 as stated: a decode of the wire form of a non-empty input that is not
\* enclosed in double quotes returns an error at the call, never waiting
\* for or holding the lock, with the membership left as it was.
C34_UnquotedRefused_AsStated ==
    \A p \in Procs :
        (pc[p] # "idle" /\ op[p] = "UnmarshalJSON"
         /\ arg[p] # <<>> /\ ~Enclosed(arg[p]))
            => /\ pc[p] = "done"
               /\ ret[p].err = "allowed: invalid allowed"
               /\ ~ret[p].fault
               /\ ~ret[p].touched

\* p is in a call that has not yet returned.
Pending(p) == pc[p] \in {"lock", "read", "unlock"}

\* C35: a caller that is not inside a call's locked section holds no lock,
\* so every operation that took the lock gave it up before it returned, on
\* the paths that fail or panic too; and under fair scheduling every call
\* of Add, Remove, Permitted, of an encoder or of a decoder returns,
\* whatever the other callers do.
C35_LockReleased ==
    /\ [](\A p \in Procs : ~InCS(p) => (writer # p /\ p \notin readers))
    /\ \A p \in Procs : Pending(p) ~> (pc[p] = "done")

\* A decode that failed under the lock has returned and the lock is free,
\* while the other caller waits for it.
C35_Witness ==
    \E p, q \in Procs :
        /\ Coded(p, "UnmarshalJSON") /\ ret[p].err # "" /\ ret[p].touched
        /\ writer = NoProc /\ readers = {}
        /\ pc[q] = "lock"

====
